---- MODULE Spec2Model ----
(***************************************************************************)
(* Model of SecureCRT_import_sessions_script.py: Import() reads a header   *)
(* line and data lines from a delimited text file, validates each line,    *)
(* creates sessions in the SecureCRT session store and writes a report.    *)
(* Strings are TLC strings; Len, \o and SubSeq work on them character by    *)
(* character, so Python's str methods are modelled by what they compute.   *)
(***************************************************************************)
EXTENDS Integers, Sequences, FiniteSets, TLC

(***************************************************************************)
(* Bounds of the model                                                     *)
(***************************************************************************)
\* number of data lines read after the header line
MaxLines == 2
\* number of clock ticks (milliseconds) the run may observe
MaxClock == 1

(***************************************************************************)
(* Python str methods                                                      *)
(***************************************************************************)
DigitChars == "0123456789"
WhitespaceChars == " "

SetMin(S) == CHOOSE m \in S : \A n \in S : m <= n

\* s[m-1:n] of Python: the characters m..n (1-based), clipped to the string
Slice(s, m, n) ==
    LET lo == IF m < 1 THEN 1 ELSE m
        hi == IF n > Len(s) THEN Len(s) ELSE n
    IN IF lo > hi THEN "" ELSE SubSeq(s, lo, hi)

\* s[i] (1-based)
CharAt(s, i) == SubSeq(s, i, i)

RECURSIVE FindFrom(_, _, _)
\* the first position from i on at which sub occurs in s, 0 when there is none
FindFrom(sub, s, i) ==
    IF i + Len(sub) - 1 > Len(s) THEN 0
    ELSE IF SubSeq(s, i, i + Len(sub) - 1) = sub THEN i
    ELSE FindFrom(sub, s, i + 1)

\* s.find(sub) + 1: the first position of sub in s, 0 when absent
Find(sub, s) == FindFrom(sub, s, 1)

\* sub in s
Contains(sub, s) == Find(sub, s) # 0

\* the lower-case letter of each upper-case letter
LowerMap ==
    [A |-> "a", B |-> "b", C |-> "c", D |-> "d", E |-> "e", F |-> "f", G |-> "g",
     H |-> "h", I |-> "i", J |-> "j", K |-> "k", L |-> "l", M |-> "m", N |-> "n",
     O |-> "o", P |-> "p", Q |-> "q", R |-> "r", S |-> "s", T |-> "t", U |-> "u",
     V |-> "v", W |-> "w", X |-> "x", Y |-> "y", Z |-> "z"]

\* the upper-case letter of each lower-case letter
UpperMap ==
    [a |-> "A", b |-> "B", c |-> "C", d |-> "D", e |-> "E", f |-> "F", g |-> "G",
     h |-> "H", i |-> "I", j |-> "J", k |-> "K", l |-> "L", m |-> "M", n |-> "N",
     o |-> "O", p |-> "P", q |-> "Q", r |-> "R", s |-> "S", t |-> "T", u |-> "U",
     v |-> "V", w |-> "W", x |-> "X", y |-> "Y", z |-> "Z"]

\* the upper-case letters
UpperCase == DOMAIN LowerMap

\* the lower-case letters
LowerCase == DOMAIN UpperMap

LowerChar(c) == IF c \in UpperCase THEN LowerMap[c] ELSE c

UpperChar(c) == IF c \in LowerCase THEN UpperMap[c] ELSE c

RECURSIVE LowerFrom(_, _)
\* the characters of s from position i on, in lower case
LowerFrom(s, i) ==
    IF i > Len(s) THEN "" ELSE LowerChar(SubSeq(s, i, i)) \o LowerFrom(s, i + 1)

\* s.lower()
Lower(s) == LowerFrom(s, 1)

RECURSIVE UpperFrom(_, _)
\* the characters of s from position i on, in upper case
UpperFrom(s, i) ==
    IF i > Len(s) THEN "" ELSE UpperChar(SubSeq(s, i, i)) \o UpperFrom(s, i + 1)

\* s.upper()
Upper(s) == UpperFrom(s, 1)

RECURSIVE LStripChars(_, _)
\* s.lstrip(chars)
LStripChars(s, chars) ==
    IF s # "" /\ Contains(CharAt(s, 1), chars)
    THEN LStripChars(Slice(s, 2, Len(s)), chars)
    ELSE s

RECURSIVE RStripChars(_, _)
\* s.rstrip(chars)
RStripChars(s, chars) ==
    IF s # "" /\ Contains(CharAt(s, Len(s)), chars)
    THEN RStripChars(Slice(s, 1, Len(s) - 1), chars)
    ELSE s

\* s.strip()
Strip(s) == RStripChars(LStripChars(s, WhitespaceChars), WhitespaceChars)

\* s.isdigit()
IsDigit(s) == s # "" /\ \A i \in 1..Len(s) : Contains(CharAt(s, i), DigitChars)

RECURSIVE Split(_, _)
\* s.split(d), d a non-empty separator
Split(s, d) ==
    LET i == Find(d, s)
    IN IF i = 0 THEN <<s>>
       ELSE <<Slice(s, 1, i - 1)>> \o Split(Slice(s, i + Len(d), Len(s)), d)

RECURSIVE Replace(_, _, _)
\* s.replace(old, new), old non-empty
Replace(s, old, new) ==
    LET i == Find(old, s)
    IN IF i = 0 THEN s
       ELSE Slice(s, 1, i - 1) \o new \o Replace(Slice(s, i + Len(old), Len(s)), old, new)

\* [x.lower() for x in v]
LowerAll(v) == [i \in 1..Len(v) |-> Lower(v[i])]

\* x in v, v a list
InList(x, v) == \E i \in 1..Len(v) : v[i] = x

(***************************************************************************)
(* Program constants                                                       *)
(***************************************************************************)
\* g_strDelimiter as configured in the script
ConfiguredDelimiter == ","
\* g_bOverwriteExistingSessions
g_bOverwriteExistingSessions == FALSE
\* g_strSupportedFields
g_strSupportedFields ==
    "description,emulation,folder,hostname,port,protocol,session_name,username,logon_script,domain"

(***************************************************************************)
(* State                                                                   *)
(***************************************************************************)
VARIABLES
    pc,                         \* position of Import(): Start, AwaitingHeader, Processing, Reporting, Done, Aborted, Cancelled
    g_nMajorVersion,            \* major version of the host application (crt.Version)
    bWindows,                   \* sys.platform == "win32" (and hasattr(sys, 'getwindowsversion'))
    strDefaultSessionProtocol,  \* "Protocol Name" of the Default session of the session store
    store,                      \* session store: path -> saved configuration
    clock,                      \* last reading of datetime.now(), in milliseconds
    bFileOpen,                  \* the data file handle is open
    vFileLines,                 \* the lines of the file read so far
    g_nCurLineNumber,
    bFoundHeader,
    strFieldDesignations,
    g_strDelimiter,
    g_vFieldsArray,
    g_strDefaultProtocol,
    g_strDefaultFolder,
    g_strDefaultUsername,
    g_strErrors,                \* the error messages, in the order of the text
    g_strBogusLinesNotImported, \* the rejected lines, in the order of the text
    g_strSessionsCreated,       \* the created session paths, in the order of the text
    g_nSessionsCreated,
    g_nDataLines,
    vLineResults,               \* per data line: the local variables of the loop body when it ends
    vMsgBox,                    \* the message boxes shown to the user
    strAbortCause,              \* why Import() returned before the end of the file
    vPrompts,                   \* the answers the user gave to crt.Dialog.Prompt
    report                      \* the summary report and where it went

vars == <<pc, g_nMajorVersion, bWindows, strDefaultSessionProtocol, store, clock,
          bFileOpen, vFileLines, g_nCurLineNumber, bFoundHeader, strFieldDesignations,
          g_strDelimiter, g_vFieldsArray, g_strDefaultProtocol, g_strDefaultFolder,
          g_strDefaultUsername, g_strErrors, g_strBogusLinesNotImported,
          g_strSessionsCreated, g_nSessionsCreated, g_nDataLines, vLineResults,
          vMsgBox, strAbortCause, vPrompts, report>>

envVars == <<g_nMajorVersion, bWindows, strDefaultSessionProtocol>>
schemaVars == <<strFieldDesignations, g_strDelimiter, g_vFieldsArray, vPrompts,
                g_strDefaultProtocol, g_strDefaultFolder, g_strDefaultUsername>>
accVars == <<g_strErrors, g_strBogusLinesNotImported, g_strSessionsCreated,
             g_nSessionsCreated>>

(***************************************************************************)
(* ValidateFieldDesignations                                               *)
(***************************************************************************)
\* variant: the answer to the prompt is not taken over
DelimiterAfterPrompt_Configured(strFields, strDelimiter, strDelim) == strDelimiter

\* the delimiter after the prompt: the answer unless it is NONE
DelimiterAfterPrompt(strFields, strDelimiter, strDelim) ==
    IF Find(strDelimiter, strFields) = 0 /\ strDelim # "NONE" THEN strDelim ELSE strDelimiter

\* the header has no delimiter and the user gave none
NoDelimiter(strFields, strDelimiter, strDelim) ==
    Find(strDelimiter, strFields) = 0 /\ strDelim = ""

\* variant: the field is looked for as a substring of a label, as the field dispatch does
HasHostnameField_Substring(vFields) ==
    \E i \in 1..Len(vFields) : Contains("hostname", Lower(vFields[i]))

\* "hostname" in [x.lower() for x in g_vFieldsArray]
HasHostnameField(vFields) == InList("hostname", LowerAll(vFields))

\* the default protocol taken from the Default session when the header names none
InheritedDefaultProtocol(strFields, vFields, strCurrent, strSessionDefault) ==
    IF ~InList("protocol", LowerAll(vFields)) /\ Find("protocol=", Lower(strFields)) = 0
    THEN strSessionDefault
    ELSE strCurrent

\* variant: only the protocol takes a default from the header, as before the
\* defaults of folder and username were added
FieldDefault_ProtocolOnly(S, strField) ==
    IF Contains("protocol", Lower(strField)) /\ Contains("=", Lower(strField))
    THEN [S EXCEPT !.strDefaultProtocol = Upper(Split(strField, "=")[2]),
                   !.strFields = Replace(S.strFields, strField, "protocol")]
    ELSE S

\* one pass of the loop over the header fields: name=value annotations
FieldDefault(S, strField) ==
    LET bEq == Contains("=", Lower(strField))
        S1 == IF Contains("protocol", Lower(strField)) /\ bEq
              THEN [S EXCEPT !.strDefaultProtocol = Upper(Split(strField, "=")[2]),
                             !.strFields = Replace(S.strFields, strField, "protocol")]
              ELSE S
        S2 == IF Contains("folder", Lower(strField)) /\ bEq
              THEN [S1 EXCEPT !.strDefaultFolder = Split(strField, "=")[2],
                              !.strFields = Replace(S1.strFields, strField, "folder")]
              ELSE S1
        S3 == IF Contains("username", Lower(strField)) /\ bEq
              THEN [S2 EXCEPT !.strDefaultUsername = Split(strField, "=")[2],
                              !.strFields = Replace(S2.strFields, strField, "username")]
              ELSE S2
    IN S3

RECURSIVE FieldDefaults(_, _, _)
\* for strField in g_vFieldsArray: ...
FieldDefaults(vFields, i, S) ==
    IF i > Len(vFields) THEN S
    ELSE FieldDefaults(vFields, i + 1, FieldDefault(S, vFields[i]))

\* the result of ValidateFieldDesignations(strFields); strDelim is the user's
\* answer to the delimiter prompt, strSessionDefault the Default session's protocol
ValidateFieldDesignations(strFields, strDelimiter, strDelim, strSessionDefault, strProto, strFolder, strUser) ==
    LET d  == DelimiterAfterPrompt(strFields, strDelimiter, strDelim)
        v  == Split(strFields, d)
        S0 == [strFields |-> strFields,
               strDefaultProtocol |-> InheritedDefaultProtocol(strFields, v, strProto, strSessionDefault),
               strDefaultFolder |-> strFolder,
               strDefaultUsername |-> strUser]
        S  == FieldDefaults(v, 1, S0)
    IN IF NoDelimiter(strFields, strDelimiter, strDelim)
       THEN [ok |-> FALSE, cause |-> "NoDelimiter", strDelimiter |-> strDelimiter,
             vFieldsArray |-> <<>>, strDefaultProtocol |-> strProto,
             strDefaultFolder |-> strFolder, strDefaultUsername |-> strUser]
       ELSE IF ~HasHostnameField(v)
       THEN [ok |-> FALSE, cause |-> "MissingHostname", strDelimiter |-> d,
             vFieldsArray |-> v, strDefaultProtocol |-> strProto,
             strDefaultFolder |-> strFolder, strDefaultUsername |-> strUser]
       ELSE [ok |-> TRUE, cause |-> "", strDelimiter |-> d,
             vFieldsArray |-> Split(S.strFields, d),
             strDefaultProtocol |-> S.strDefaultProtocol,
             strDefaultFolder |-> S.strDefaultFolder,
             strDefaultUsername |-> S.strDefaultUsername]

(***************************************************************************)
(* Error messages: each message of g_strErrors is a record carrying the    *)
(* parts the message text is formatted from                                *)
(***************************************************************************)
ErrorMsg(kind, nLine, strLine, strValue, strDetail) ==
    [kind |-> kind, nLine |-> nLine, strLine |-> strLine,
     strValue |-> strValue, strDetail |-> strDetail]

\* g_strErrors = message + g_strErrors
Prepend(e, strErrors) == <<e>> \o strErrors

(***************************************************************************)
(* Import: the fields of one data line                                     *)
(***************************************************************************)
\* variant: strSessionName is not reset after a rejected line and keeps what the
\* line of the latest error message left in it
InitialLocals_NameLeftOver(strErrors) ==
    [strSessionName |-> IF strErrors = <<>> THEN "" ELSE strErrors[1].strLine,
     strLogonScript |-> "", strPort |-> "", strProtocol |-> "",
     strHostName |-> "", strUserName |-> "", strEmulation |-> "", strFolder |-> "",
     strFolderOrig |-> "", strDescription |-> "", strDomain |-> "",
     bSaveSession |-> TRUE, bUnknownField |-> FALSE, strUnknownField |-> "",
     strErrors |-> strErrors]

\* the local variables at the start of the loop body
InitialLocals(strErrors) ==
    [strSessionName |-> "", strLogonScript |-> "", strPort |-> "", strProtocol |-> "",
     strHostName |-> "", strUserName |-> "", strEmulation |-> "", strFolder |-> "",
     strFolderOrig |-> "", strDescription |-> "", strDomain |-> "",
     bSaveSession |-> TRUE, bUnknownField |-> FALSE, strUnknownField |-> "",
     strErrors |-> strErrors]

\* variant: the line is not saved but no message is added to g_strErrors
Reject_NoMessage(L, e) == [L EXCEPT !.bSaveSession = FALSE]

\* bSaveSession = False; g_strErrors = message + g_strErrors
Reject(L, e) == [L EXCEPT !.bSaveSession = FALSE, !.strErrors = Prepend(e, L.strErrors)]

PortField(L, strValue, nLine, strLine) ==
    LET strPort == Strip(strValue)
        L1 == [L EXCEPT !.strPort = strPort]
    IN IF strPort # "" /\ ~IsDigit(strPort)
       THEN Reject(L1, ErrorMsg("InvalidPort", nLine, strLine, strPort, ""))
       ELSE L1

\* variant: the token is compared without lower()
ProtocolField_CaseSensitive(L, strValue, nLine, strLine, strDefaultProtocol) ==
    LET strProtocol == Strip(strValue)
    IN IF strProtocol = "ssh2" THEN [L EXCEPT !.strProtocol = "SSH2"]
       ELSE IF strProtocol = "ssh1" THEN [L EXCEPT !.strProtocol = "SSH1"]
       ELSE IF strProtocol = "telnet" THEN [L EXCEPT !.strProtocol = "Telnet"]
       ELSE IF strProtocol = "serial" \/ strProtocol = "tapi"
       THEN Reject([L EXCEPT !.strProtocol = strProtocol],
                   ErrorMsg("UnsupportedProtocol", nLine, strLine, Strip(strValue), ""))
       ELSE IF strProtocol = "rlogin" THEN [L EXCEPT !.strProtocol = "RLogin"]
       ELSE IF Contains("rdp", Lower(strProtocol)) THEN [L EXCEPT !.strProtocol = "RDP"]
       ELSE IF strDefaultProtocol # "" THEN [L EXCEPT !.strProtocol = strDefaultProtocol]
       ELSE Reject([L EXCEPT !.strProtocol = strProtocol],
                   ErrorMsg("InvalidProtocol", nLine, strLine, strProtocol, ""))

ProtocolField(L, strValue, nLine, strLine, strDefaultProtocol) ==
    LET strProtocol == Strip(Lower(strValue))
    IN IF strProtocol = "ssh2" THEN [L EXCEPT !.strProtocol = "SSH2"]
       ELSE IF strProtocol = "ssh1" THEN [L EXCEPT !.strProtocol = "SSH1"]
       ELSE IF strProtocol = "telnet" THEN [L EXCEPT !.strProtocol = "Telnet"]
       ELSE IF strProtocol = "serial" \/ strProtocol = "tapi"
       THEN Reject([L EXCEPT !.strProtocol = strProtocol],
                   ErrorMsg("UnsupportedProtocol", nLine, strLine, Strip(strValue), ""))
       ELSE IF strProtocol = "rlogin" THEN [L EXCEPT !.strProtocol = "RLogin"]
       ELSE IF Contains("rdp", Lower(strProtocol)) THEN [L EXCEPT !.strProtocol = "RDP"]
       ELSE IF strDefaultProtocol # "" THEN [L EXCEPT !.strProtocol = strDefaultProtocol]
       ELSE Reject([L EXCEPT !.strProtocol = strProtocol],
                   ErrorMsg("InvalidProtocol", nLine, strLine, strProtocol, ""))

HostnameField(L, strValue, nLine, strLine) ==
    LET strHostName == Strip(strValue)
        L1 == [L EXCEPT !.strHostName = strHostName]
    IN IF strHostName = ""
       THEN Reject(L1, ErrorMsg("EmptyHostname", nLine, strLine, "", ""))
       ELSE L1

\* variant: VT320 is taken whatever the version, as before the check was added
EmulationField_NoVersionGate(L, strValue, nLine, strLine, nMajorVersion) ==
    LET strEmulation == Strip(Lower(strValue))
        L1 == [L EXCEPT !.strEmulation = strEmulation]
    IN IF strEmulation = "xterm" THEN [L EXCEPT !.strEmulation = "Xterm"]
       ELSE IF strEmulation \in {"vt100", "vt102", "vt220", "vt320", "ansi", "scoansi",
                                 "wyse50", "wyse60"}
       THEN [L EXCEPT !.strEmulation = Upper(strEmulation)]
       ELSE IF strEmulation = "linux" THEN [L EXCEPT !.strEmulation = "Linux"]
       ELSE IF strEmulation = "vshell" THEN [L EXCEPT !.strEmulation = "VShell"]
       ELSE Reject(L1, ErrorMsg("InvalidEmulation", nLine, strLine, strEmulation, ""))

EmulationField(L, strValue, nLine, strLine, nMajorVersion) ==
    LET strEmulation == Strip(Lower(strValue))
        L1 == [L EXCEPT !.strEmulation = strEmulation]
    IN IF strEmulation = "xterm" THEN [L EXCEPT !.strEmulation = "Xterm"]
       ELSE IF strEmulation = "vt100" THEN [L EXCEPT !.strEmulation = "VT100"]
       ELSE IF strEmulation = "vt102" THEN [L EXCEPT !.strEmulation = "VT102"]
       ELSE IF strEmulation = "vt220" THEN [L EXCEPT !.strEmulation = "VT220"]
       ELSE IF strEmulation = "vt320"
       THEN IF nMajorVersion < 8
            THEN Reject(L1, ErrorMsg("UnsupportedEmulationVersion", nLine, strLine, strEmulation, ""))
            ELSE [L EXCEPT !.strEmulation = "VT320"]
       ELSE IF strEmulation = "ansi" THEN [L EXCEPT !.strEmulation = "ANSI"]
       ELSE IF strEmulation = "linux" THEN [L EXCEPT !.strEmulation = "Linux"]
       ELSE IF strEmulation = "scoansi" THEN [L EXCEPT !.strEmulation = "SCOANSI"]
       ELSE IF strEmulation = "vshell" THEN [L EXCEPT !.strEmulation = "VShell"]
       ELSE IF strEmulation = "wyse50" THEN [L EXCEPT !.strEmulation = "WYSE50"]
       ELSE IF strEmulation = "wyse60" THEN [L EXCEPT !.strEmulation = "WYSE60"]
       ELSE Reject(L1, ErrorMsg("InvalidEmulation", nLine, strLine, strEmulation, ""))

FolderField(L, strValue, strDefaultFolder) ==
    LET strFolderOrig == Strip(strValue)
    IN IF Lower(strFolderOrig) = ""
       THEN [L EXCEPT !.strFolder = strDefaultFolder, !.strFolderOrig = strDefaultFolder]
       ELSE [L EXCEPT !.strFolder = Lower(strFolderOrig), !.strFolderOrig = strFolderOrig]

DescriptionField(L, strValue) ==
    LET strCurDescription == Strip(strValue)
    IN IF L.strDescription = ""
       THEN [L EXCEPT !.strDescription = strCurDescription]
       ELSE [L EXCEPT !.strDescription =
                Replace(L.strDescription \o "\\r" \o strCurDescription, "\\r", "\r")]

\* the if/elif chain that dispatches on the field label
Field(L, strLabel, strValue, nLine, strLine, strDefaultProtocol, strDefaultFolder, nMajorVersion) ==
    LET strFieldLabel == Lower(Strip(strLabel))
    IN IF Contains("session_name", strFieldLabel) THEN [L EXCEPT !.strSessionName = Strip(strValue)]
       ELSE IF Contains("logon_script", strFieldLabel) THEN [L EXCEPT !.strLogonScript = Strip(strValue)]
       ELSE IF Contains("port", strFieldLabel) THEN PortField(L, strValue, nLine, strLine)
       ELSE IF Contains("protocol", strFieldLabel)
       THEN ProtocolField(L, strValue, nLine, strLine, strDefaultProtocol)
       ELSE IF Contains("hostname", strFieldLabel) THEN HostnameField(L, strValue, nLine, strLine)
       ELSE IF Contains("username", strFieldLabel) THEN [L EXCEPT !.strUserName = Strip(strValue)]
       ELSE IF Contains("emulation", strFieldLabel)
       THEN EmulationField(L, strValue, nLine, strLine, nMajorVersion)
       ELSE IF Contains("folder", strFieldLabel) THEN FolderField(L, strValue, strDefaultFolder)
       ELSE IF Contains("description", strFieldLabel) THEN DescriptionField(L, strValue)
       ELSE IF Contains("domain", strFieldLabel) THEN [L EXCEPT !.strDomain = Strip(strValue)]
       ELSE [L EXCEPT !.bUnknownField = TRUE, !.strUnknownField = strLabel]

RECURSIVE Fields(_, _, _, _, _, _, _, _, _)
\* for nFieldIndex in range(0, len(vSessionInfo)): ... ; stops at an unknown field
Fields(L, i, vFields, vSessionInfo, nLine, strLine, strDefaultProtocol, strDefaultFolder, nMajorVersion) ==
    IF i > Len(vSessionInfo) \/ L.bUnknownField THEN L
    ELSE Fields(Field(L, vFields[i], vSessionInfo[i], nLine, strLine,
                      strDefaultProtocol, strDefaultFolder, nMajorVersion),
                i + 1, vFields, vSessionInfo, nLine, strLine,
                strDefaultProtocol, strDefaultFolder, nMajorVersion)

(***************************************************************************)
(* ValidateSessionFolderComponent and ValidateProtocolComponent            *)
(***************************************************************************)
\* the character class of g_objReFolders
g_objReFolders == "|:*?\"<>"
\* variant: the character class of the folders is used for session names too
g_objReSession_AsFolders == "|:*?\"<>"

\* the character class of g_objReSession
g_objReSession == "|:*?\"<>/"
\* the alternatives of g_objReSpecialsFolders and g_objReSpecialsSession
ReservedNames ==
    {"CON", "PRN", "AUX", "NUL"} \cup
    {"COM" \o CharAt(DigitChars, i) : i \in 1..10} \cup
    {"LPT" \o CharAt(DigitChars, i) : i \in 1..10}

\* regexp.search(strComponent) for a character class: position of the first match, 0 if none
SearchChars(strChars, strComponent) ==
    LET idx == {i \in 1..Len(strComponent) : Contains(CharAt(strComponent, i), strChars)}
    IN IF idx = {} THEN 0 ELSE SetMin(idx)

\* variant: the folder component is searched as it is written
PadFolder_AsWritten(strComponent) == strComponent

\* the folder component with a '/' put in front and behind, as the code does it
PadFolder(strComponent) ==
    LET c1 == IF Slice(strComponent, 1, 1) # "/" THEN "/" \o strComponent ELSE strComponent
    IN IF Slice(c1, 2, Len(c1)) # "/" THEN c1 \o "/" ELSE c1

\* g_objReSpecialsFolders.search(s): group(1) of the leftmost match, "" if none
SearchSpecialsFolders(s) ==
    LET u   == Upper(s)
        pat == {"/" \o n \o "/" : n \in ReservedNames}
        idx == {i \in 1..Len(s) : Slice(u, i, i + 4) \in pat \/ Slice(u, i, i + 5) \in pat}
        i0  == SetMin(idx)
    IN IF idx = {} THEN ""
       ELSE IF Slice(u, i0, i0 + 4) \in pat THEN Slice(s, i0 + 1, i0 + 3)
       ELSE Slice(s, i0 + 1, i0 + 4)

\* g_objReSpecialsSession.search(s): group(1) of the match, "" if none
SearchSpecialsSession(s) == IF Upper(s) \in ReservedNames THEN s ELSE ""

\* the result of ValidateSessionFolderComponent(strComponent, strType):
\* the return value and the new g_strErrors and g_strBogusLinesNotImported
ValidateSessionFolderComponent(strComponent, strTypeArg, nLine, strLine, strErrors, strBogus, bWin) ==
    LET strType == Lower(strTypeArg)
        regexp  == IF strType = "folder" THEN g_objReFolders ELSE g_objReSession
        iMatch  == SearchChars(regexp, strComponent)
        strSpecial == IF strType = "folder"
                      THEN SearchSpecialsFolders(PadFolder(strComponent))
                      ELSE SearchSpecialsSession(strComponent)
    IN IF iMatch # 0
       THEN [ok |-> FALSE,
             strErrors |-> Prepend(ErrorMsg("InvalidCharacter", nLine, strLine,
                                            CharAt(strComponent, iMatch), strType), strErrors),
             strBogus |-> Append(strBogus, strLine)]
       ELSE IF bWin /\ strSpecial # ""
       THEN [ok |-> FALSE,
             strErrors |-> Prepend(ErrorMsg("ReservedName", nLine, strLine,
                                            strSpecial, strType), strErrors),
             strBogus |-> Append(strBogus, strLine)]
       ELSE [ok |-> TRUE, strErrors |-> strErrors, strBogus |-> strBogus]

\* variant: only the version is checked, as before the platform check was added
RdpGate_VersionOnly(strProtocol, nMajorVersion, bWin) ==
    IF Contains("rdp", Lower(strProtocol)) /\ nMajorVersion < 9 THEN "RdpVersion" ELSE ""

\* the RDP gate: the error text ValidateProtocolComponent chooses, "" when it returns True
RdpGate(strProtocol, nMajorVersion, bWin) ==
    IF Contains("rdp", Lower(strProtocol))
    THEN IF nMajorVersion < 9 THEN "RdpVersion"
         ELSE IF ~bWin THEN "RdpPlatform"
         ELSE ""
    ELSE ""

\* the result of ValidateProtocolComponent(strProtocol)
ValidateProtocolComponent(strProtocol, nLine, strLine, strErrors, strBogus, nMajorVersion, bWin) ==
    LET strErrorText == RdpGate(strProtocol, nMajorVersion, bWin)
    IN IF strErrorText # ""
       THEN [ok |-> FALSE,
             strErrors |-> Prepend(ErrorMsg(strErrorText, nLine, strLine, strProtocol, ""), strErrors),
             strBogus |-> Append(strBogus, strLine)]
       ELSE [ok |-> TRUE, strErrors |-> strErrors, strBogus |-> strBogus]

(***************************************************************************)
(* Import: creating the session                                            *)
(***************************************************************************)
RECURSIVE ParseInt(_)
\* int(s) for a string of digits
ParseInt(s) ==
    IF s = "" THEN 0
    ELSE 10 * ParseInt(Slice(s, 1, Len(s) - 1)) + (Find(CharAt(s, Len(s)), DigitChars) - 1)

\* datetime.now().strftime("%Y%m%d_%H%M%S.%f")[:19] at clock reading t (milliseconds)
TimeTag(t) == "20210625_120000.00" \o CharAt(DigitChars, t + 1)

\* the path of the session before the existence check
SessionPath(strFolderOrig, strSessionName) ==
    LStripChars(IF Strip(strFolderOrig) # ""
                THEN strFolderOrig \o "/" \o strSessionName
                ELSE strSessionName, "/")

\* SessionExists(strSessionPath)
SessionExists(st, strSessionPath) == strSessionPath \in DOMAIN st

\* the path the session is saved at; t is the clock reading
UniquePath(st, strSessionPath, t) ==
    IF SessionExists(st, strSessionPath) /\ ~g_bOverwriteExistingSessions
    THEN strSessionPath \o "(import_(" \o TimeTag(t) \o ")"
    ELSE strSessionPath

\* the port option the code sets for the protocol, -1 when it sets none
PortOption(strProtocol, strPort) ==
    IF Upper(strProtocol) = "SSH2" THEN (IF strPort = "" THEN 22 ELSE ParseInt(strPort))
    ELSE IF Upper(strProtocol) = "SSH1" THEN ParseInt(IF strPort = "" THEN "22" ELSE strPort)
    ELSE IF Upper(strProtocol) = "TELNET" THEN ParseInt(IF strPort = "" THEN "23" ELSE strPort)
    ELSE IF Contains("rdp", Lower(strProtocol)) THEN ParseInt(IF strPort = "" THEN "3389" ELSE strPort)
    ELSE -1

\* a copy of the Default session saved under a new path with the protocol the store took
NewConfig(strProtocolTaken) ==
    [strProtocol |-> strProtocolTaken, strHostName |-> "", strUserName |-> "", nPort |-> -1,
     strEmulation |-> "", vDescription |-> <<>>, strLogonScript |-> ""]

\* the Username option: domain\user for an RDP session with a domain
UsernameOption(L, strUserName) ==
    IF Contains("rdp", Lower(L.strProtocol)) /\ L.strDomain # ""
    THEN L.strDomain \o "\\" \o strUserName
    ELSE strUserName

\* the options set on the new session before the final Save()
FinalConfig(L, strUserName) ==
    [strProtocol |-> L.strProtocol,
     strHostName |-> IF Lower(L.strProtocol) # "serial" THEN L.strHostName ELSE "",
     strUserName |-> IF Lower(L.strProtocol) # "serial" /\ strUserName # ""
                     THEN UsernameOption(L, strUserName) ELSE "",
     nPort |-> PortOption(L.strProtocol, L.strPort),
     strEmulation |-> L.strEmulation,
     vDescription |-> IF L.strDescription # "" THEN Split(L.strDescription, "\r") ELSE <<>>,
     strLogonScript |-> L.strLogonScript]

\* variant: an emulation value ends the run whatever the protocol is
AbortAfterSave_AnyEmulation(L, strProtocolTaken) ==
    IF strProtocolTaken # L.strProtocol THEN "ProtocolMismatch"
    ELSE IF L.strLogonScript # "" /\ Contains("rdp", Lower(L.strProtocol)) THEN "RdpLogonScript"
    ELSE IF L.strEmulation # "" THEN "RdpEmulation"
    ELSE ""

\* why the code returns after the first Save(), "" when it goes on
AbortAfterSave(L, strProtocolTaken) ==
    IF strProtocolTaken # L.strProtocol THEN "ProtocolMismatch"
    ELSE IF L.strLogonScript # "" /\ Contains("rdp", Lower(L.strProtocol)) THEN "RdpLogonScript"
    ELSE IF L.strEmulation # "" /\ Contains("rdp", Lower(L.strProtocol)) THEN "RdpEmulation"
    ELSE ""

(***************************************************************************)
(* Import: the body of the loop for one data line                          *)
(***************************************************************************)
\* g_strSessionsCreated, g_nSessionsCreated after a session was saved at strSessionPath
RecordCreated(strCreated, strSessionPath) == Append(strCreated, strSessionPath)

\* store with the configuration cfg saved at strSessionPath
Save(st, strSessionPath, cfg) ==
    [p \in DOMAIN st \cup {strSessionPath} |-> IF p = strSessionPath THEN cfg ELSE st[p]]

\* the outcome of a line with fewer values than the header has fields
TooFewFields(strLine, nLine, strErrors, strBogus) ==
    LET strShown == IF Strip(strLine) = "" THEN "[Empty Line]" ELSE strLine
    IN [strErrors |-> Prepend(ErrorMsg("InsufficientData", nLine, strShown, "", ""), strErrors),
        strBogus |-> strBogus]

\* the outcome of a line with more values than the header has fields
TooManyFields(strLine, nLine, strErrors, strBogus) ==
    [strErrors |-> Append(strErrors, ErrorMsg("FieldCountMismatch", nLine, strLine, "", "")),
     strBogus |-> Append(strBogus, strLine)]

\* variant: the session name is taken as the line gives it
SessionNameOrHostname_AsGiven(L) == L.strSessionName

\* if strSessionName == "": strSessionName = strHostName
SessionNameOrHostname(L) ==
    IF L.strSessionName = "" THEN L.strHostName ELSE L.strSessionName

\* variant: the validations stop at the first failure: a component is only
\* validated when no check before it has failed
Validations_StopAtFirst(L, nLine, strLine, strBogus, strDefaultFolder, nMajorVersion, bWin) ==
    LET strSessionName == SessionNameOrHostname(L)
        strFolderOrig == IF L.strFolderOrig = "" THEN strDefaultFolder ELSE L.strFolderOrig
        Pass(strErrors, strB) == [ok |-> TRUE, strErrors |-> strErrors, strBogus |-> strB]
        V1 == IF L.bSaveSession
              THEN ValidateSessionFolderComponent(strSessionName, "session", nLine, strLine,
                                                  L.strErrors, strBogus, bWin)
              ELSE Pass(L.strErrors, strBogus)
        V2 == IF L.bSaveSession /\ V1.ok
              THEN ValidateSessionFolderComponent(strFolderOrig, "folder", nLine, strLine,
                                                  V1.strErrors, V1.strBogus, bWin)
              ELSE Pass(V1.strErrors, V1.strBogus)
        V3 == IF L.bSaveSession /\ V1.ok /\ V2.ok
              THEN ValidateProtocolComponent(L.strProtocol, nLine, strLine,
                                             V2.strErrors, V2.strBogus, nMajorVersion, bWin)
              ELSE Pass(V2.strErrors, V2.strBogus)
    IN [L |-> [L EXCEPT !.strSessionName = strSessionName,
                        !.strFolderOrig = strFolderOrig,
                        !.bSaveSession = L.bSaveSession /\ V1.ok /\ V2.ok /\ V3.ok,
                        !.strErrors = V3.strErrors],
        strBogus |-> V3.strBogus]

\* the three validations that follow the loop over the fields
Validations(L, nLine, strLine, strBogus, strDefaultFolder, nMajorVersion, bWin) ==
    LET strSessionName == SessionNameOrHostname(L)
        V1 == ValidateSessionFolderComponent(strSessionName, "session", nLine, strLine,
                                             L.strErrors, strBogus, bWin)
        strFolderOrig == IF L.strFolderOrig = "" THEN strDefaultFolder ELSE L.strFolderOrig
        V2 == ValidateSessionFolderComponent(strFolderOrig, "folder", nLine, strLine,
                                             V1.strErrors, V1.strBogus, bWin)
        V3 == ValidateProtocolComponent(L.strProtocol, nLine, strLine,
                                        V2.strErrors, V2.strBogus, nMajorVersion, bWin)
    IN [L |-> [L EXCEPT !.strSessionName = strSessionName,
                        !.strFolderOrig = strFolderOrig,
                        !.bSaveSession = L.bSaveSession /\ V1.ok /\ V2.ok /\ V3.ok,
                        !.strErrors = V3.strErrors],
        strBogus |-> V3.strBogus]

\* the local variables after the loop over the fields of the data line strLine;
\* the loop is only entered by a line with the right number of values
LineFields(strLine, nLine, vFields, strDelimiter, strDefaultProtocol, strDefaultFolder, strErrors, nMajorVersion) ==
    IF Len(Split(strLine, strDelimiter)) = Len(vFields)
    THEN Fields(InitialLocals(strErrors), 1, vFields, Split(strLine, strDelimiter), nLine,
                strLine, strDefaultProtocol, strDefaultFolder, nMajorVersion)
    ELSE InitialLocals(strErrors)

\* the loop body after the loop over the fields, L1 the local variables then:
\* the validations, the default username and the path of the session
RightCount(L1, V, strBogus, strDefaultUsername) ==
    IF L1.bUnknownField
    THEN [L |-> [L1 EXCEPT !.bSaveSession = FALSE], strBogus |-> strBogus,
          strSessionPath |-> ""]
    ELSE IF ~V.L.bSaveSession
    THEN [L |-> V.L, strBogus |-> V.strBogus, strSessionPath |-> ""]
    ELSE [L |-> [V.L EXCEPT !.strUserName =
                    IF Strip(V.L.strUserName) = "" THEN strDefaultUsername
                    ELSE V.L.strUserName],
          strBogus |-> V.strBogus,
          strSessionPath |-> SessionPath(V.L.strFolderOrig, V.L.strSessionName)]

\* the loop body for a line with a wrong number of values; r is the new
\* g_strErrors and g_strBogusLinesNotImported
WrongCount(r) ==
    [L |-> [InitialLocals(r.strErrors) EXCEPT !.bSaveSession = FALSE],
     strBogus |-> r.strBogus, strSessionPath |-> ""]

\* the part of the loop body before the session is created: the field count and,
\* with L1 the local variables after the loop over the fields and V the result
\* of the validations, what the line comes to
NormalizeLine(strLine, nLine, L1, V, vFields, strDelimiter, strDefaultUsername, strErrors, strBogus) ==
    IF Len(Split(strLine, strDelimiter)) < Len(vFields)
    THEN WrongCount(TooFewFields(strLine, nLine, strErrors, strBogus))
    ELSE IF Len(Split(strLine, strDelimiter)) > Len(vFields)
    THEN WrongCount(TooManyFields(strLine, nLine, strErrors, strBogus))
    ELSE RightCount(L1, V, strBogus, strDefaultUsername)

\* the part of the loop body under "if bSaveSession": N is the normalized line,
\* bHonored: the session store takes the requested protocol; t: the clock reading
CreateSession(N, bHonored, t, strSessionDefault, strCreated, st) ==
    LET strPath  == UniquePath(st, N.strSessionPath, t)
        strTaken == IF bHonored THEN N.L.strProtocol ELSE strSessionDefault
        strCause == AbortAfterSave(N.L, strTaken)
    IN IF strCause # ""
       THEN [outcome |-> "Aborted", strAbortCause |-> strCause,
             store |-> Save(st, strPath, NewConfig(strTaken)),
             strCreated |-> strCreated, strSessionPath |-> strPath]
       ELSE [outcome |-> "Created", strAbortCause |-> "",
             store |-> Save(st, strPath, FinalConfig(N.L, N.L.strUserName)),
             strCreated |-> RecordCreated(strCreated, strPath), strSessionPath |-> strPath]

\* variant: a line that fails its validation ends the run instead of being skipped
NotCreated_ReturnOnReject(N, strCreated, st) ==
    [outcome |-> "Aborted",
     strAbortCause |-> IF N.L.bUnknownField THEN "UnknownField" ELSE "InvalidLine",
     store |-> st, strCreated |-> strCreated, strSessionPath |-> ""]

\* the loop body for a line for which no session is created
NotCreated(N, strCreated, st) ==
    [outcome |-> IF N.L.bUnknownField THEN "Aborted" ELSE "Rejected",
     strAbortCause |-> IF N.L.bUnknownField THEN "UnknownField" ELSE "",
     store |-> st, strCreated |-> strCreated, strSessionPath |-> ""]

(***************************************************************************)
(* Inputs: the data files, the user's answers, the environment             *)
(***************************************************************************)
\* header lines, each with the data lines that files with this header are made of
Pools == {
    [header |-> "hostname,protocol",
     lines  |-> {"h1,ssh2", "h1,Ssh2", "h1,serial", "h1"}],
    [header |-> "Hostname,Protocol",
     lines  |-> {"h2,SSH1", "h1,bogus", ",telnet", "h1,ssh2,x"}],
    [header |-> "HostName,Protocol",
     lines  |-> {"h1,Telnet", "h1,rlogin"}],
    [header |-> "hostName,protocol",
     lines  |-> {"h1,TAPI", "h1,xrdp"}],
    [header |-> "HOSTNAME,PROTOCOL",
     lines  |-> {"h1, SSH2 ", ""}],
    [header |-> "hostname,protocol=SSH2",
     lines  |-> {"h1,", "h1,rdp"}],
    [header |-> "hostname,protocol=serial",
     lines  |-> {"h1,", "h1,bogus", "h1,ssh2"}],
    [header |-> "hostname,Protocol=rdp",
     lines  |-> {"h1,", "h1,ssh1"}],
    [header |-> "hostname",
     lines  |-> {"h1", "h2", "", "CON"}],
    [header |-> "Hostname",
     lines  |-> {"h1,extra", "h1"}],
    [header |-> "hostname,emulation",
     lines  |-> {"h1,xterm", "h1,VT100"}],
    [header |-> "hostname,Emulation",
     lines  |-> {"h1,vt102", "h1,Vt220"}],
    [header |-> "Hostname,Emulation",
     lines  |-> {"h1,vt320", "h1,"}],
    [header |-> "HostName,Emulation",
     lines  |-> {"h1,vt52", "h1,ANSI"}],
    [header |-> "Emulation,hostname",
     lines  |-> {"linux,h1", "ScoAnsi,h1"}],
    [header |-> "EMULATION,hostname",
     lines  |-> {"vshell,h1", "WYSE50,h1"}],
    [header |-> "emulation,hostname",
     lines  |-> {"wyse60,h1", " VT320 ,h1", "xterm-256,h1"}],
    [header |-> "hostname,port",
     lines  |-> {"h1,22", "h1,abc", "h1,0"}],
    [header |-> "hostname,PORT",
     lines  |-> {"h1,"}],
    [header |-> "Hostname,Port",
     lines  |-> {"h1,-1", "h1, 2222"}],
    [header |-> "session_name,hostname,folder",
     lines  |-> {"s1,h1,f", "a|b,h1,a:b"}],
    [header |-> "session_name,hostname,Folder",
     lines  |-> {"a|b,h1,f", "s1,h1,a:b"}],
    [header |-> "Session_Name,Hostname,Folder",
     lines  |-> {"CON,h1,f", "s1,h1,x/con/y", "a/b,h1,f", ",h1,"}],
    [header |-> "folder,hostname",
     lines  |-> {"x/Lpt9,h1", "console/x,h1"}],
    [header |-> "Folder,hostname",
     lines  |-> {"con/x,h1", "COM1,h1"}],
    [header |-> "session_name,hostname",
     lines  |-> {"Aux,h1", "aux1,h1", "nul,h2"}],
    [header |-> "hostname,protocol,emulation",
     lines  |-> {"h1,rdp,xterm", ",rdp,xterm"}],
    [header |-> "Hostname,Protocol,Emulation",
     lines  |-> {"h1,rdp,vt52", "h1,telnet,VT100"}],
    [header |-> "hostname,protocol,logon_script",
     lines  |-> {"h1,rdp,s.py", "h1,ssh2,s.py"}],
    [header |-> "hostname,protocol,Logon_Script",
     lines  |-> {"h1,rdp,", "h1,telnet,"}],
    [header |-> "hostname,username,folder,protocol=SSH2",
     lines  |-> {"192.168.0.1,root,_imported,SSH1", "192.168.0.3,root,_imported/folderA,"}],
    [header |-> "hostname,username,folder,Protocol=SSH2",
     lines  |-> {"192.168.0.4,root,,", "192.168.0.5,admin,_imported/folderB,telnet"}],
    [header |-> "hostname,username=bob,folder=Site34,domain,protocol",
     lines  |-> {"h1,,,corp,rdp", "h1,al,lab,,ssh2", "h1,,,,"}],
    [header |-> "hostname,description,description",
     lines  |-> {"h1,first,second", "h1,,", "h2,only,"}],
    [header |-> "protocol,port",
     lines  |-> {"ssh2,22"}],
    [header |-> "host,protocol",
     lines  |-> {"h1,ssh2"}],
    [header |-> " hostname,port",
     lines  |-> {"h1,22"}],
    [header |-> "name",
     lines  |-> {"h1"}],
    [header |-> "hostname=h1,port",
     lines  |-> {"h1,22"}],
    [header |-> "hostname,bogus",
     lines  |-> {"h1,x", "h1", ",x"}],
    [header |-> "hostname,transport",
     lines  |-> {"h1,22", "h1,abc"}],
    [header |-> "hostname,protocol,port",
     lines  |-> {"h1,ssh2,0", "h1,telnet,"}],
    [header |-> "hostname,protocol,Port",
     lines  |-> {"h1,ssh1,x", "h1,SSH2, 2222"}],
    [header |-> "hostname;port",
     lines  |-> {"h1;22", "h1,22", "h1"}],
    [header |-> "hostname,port,Color",
     lines  |-> {"h1,abc,red", "h1,22", "h1,22,blue"}],
    [header |-> "hostname,protocol=RDP",
     lines  |-> {"h2,junk", "h1,serial"}],
    [header |-> "HOSTNAME,Protocol",
     lines  |-> {"h1,", "h1,RDP"}],
    [header |-> "Hostname,protocol=SSH2",
     lines  |-> {"h1,bogus", "h2,telnet"}],
    [header |-> "hostname,protocol,Emulation",
     lines  |-> {"h1,ssh2,xterm", "h1,rdp,"}]
}

Headers == {P.header : P \in Pools}

\* the data lines that may follow the header
LinesFor(strHeader) == UNION {P.lines : P \in {Q \in Pools : Q.header = strHeader}}

\* the answers to the delimiter prompt
PromptAnswers == {"", "NONE", ";"}

\* the major versions of the host application
MajorVersions == {7, 8, 9}

\* the protocol of the Default session
DefaultSessionProtocols == {"SSH2", "Telnet"}

\* the sessions in the store before the run
ExistingSessions == [p \in {"h2"} |-> NewConfig("SSH2")]

\* the three report files, in the order they are tried
ReportLocations == <<"Documents", "Desktop", "Config">>

\* what happens at one location: does open(strFilename, "w") succeed, and is there a
\* file of that name afterwards; a successful open leaves a file, a failed one finds
\* no file or a file that was there before and cannot be written
OpenResults ==
    {[bOpen |-> TRUE, bIsFile |-> TRUE], [bOpen |-> FALSE, bIsFile |-> FALSE],
     [bOpen |-> FALSE, bIsFile |-> TRUE]}

\* what happens at the locations that are tried, in order: the loop goes on to the
\* next location only when there is no file at the one before
TriedOutcomes ==
    {v \in UNION {[1..n -> OpenResults] : n \in 1..Len(ReportLocations)} :
        /\ \A i \in 1..(Len(v) - 1) : ~v[i].bIsFile
        /\ Len(v) < Len(ReportLocations) => v[Len(v)].bIsFile}

NoReport == [strDestination |-> "None"]

(***************************************************************************)
(* Init and the actions                                                    *)
(***************************************************************************)
Init ==
    /\ pc = "Start"
    /\ g_nMajorVersion \in MajorVersions
    /\ bWindows \in BOOLEAN
    /\ strDefaultSessionProtocol \in DefaultSessionProtocols
    /\ store = ExistingSessions
    /\ clock = 0
    /\ bFileOpen = FALSE
    /\ vFileLines = <<>>
    /\ g_nCurLineNumber = 0
    /\ bFoundHeader = FALSE
    /\ strFieldDesignations = ""
    /\ g_strDelimiter = ConfiguredDelimiter
    /\ g_vFieldsArray = <<>>
    /\ g_strDefaultProtocol = ""
    /\ g_strDefaultFolder = ""
    /\ g_strDefaultUsername = ""
    /\ g_strErrors = <<>>
    /\ g_strBogusLinesNotImported = <<>>
    /\ g_strSessionsCreated = <<>>
    /\ g_nSessionsCreated = 0
    /\ g_nDataLines = 0
    /\ vLineResults = <<>>
    /\ vMsgBox = <<>>
    /\ strAbortCause = ""
    /\ vPrompts = <<>>
    /\ report = NoReport

\* the file dialog and the "Use Default session options?" question, then open()
StartImport ==
    /\ pc = "Start"
    /\ \E bFileChosen \in BOOLEAN, nReturn \in {6, 7, 2} :
          IF bFileChosen /\ nReturn # 2
          THEN pc' = "AwaitingHeader" /\ bFileOpen' = TRUE
          ELSE pc' = "Cancelled" /\ bFileOpen' = FALSE
    /\ UNCHANGED <<envVars, store, clock, vFileLines, g_nCurLineNumber, bFoundHeader,
                   schemaVars, accVars, g_nDataLines, vLineResults, vMsgBox,
                   strAbortCause, report>>

\* the first line of the file: ValidateFieldDesignations
ReadHeader ==
    /\ pc = "AwaitingHeader"
    /\ \E strLine \in Headers :
       \E strDelim \in (IF Contains(g_strDelimiter, strLine) THEN {"NONE"} ELSE PromptAnswers) :
       \E r \in {ValidateFieldDesignations(strLine, g_strDelimiter, strDelim,
                        strDefaultSessionProtocol, g_strDefaultProtocol,
                        g_strDefaultFolder, g_strDefaultUsername)} :
             /\ vFileLines' = Append(vFileLines, strLine)
             /\ g_nCurLineNumber' = g_nCurLineNumber + 1
             /\ strFieldDesignations' = strLine
             /\ g_strDelimiter' = r.strDelimiter
             /\ vPrompts' = IF Contains(g_strDelimiter, strLine) THEN vPrompts
                             ELSE Append(vPrompts, strDelim)
             /\ g_vFieldsArray' = r.vFieldsArray
             /\ g_strDefaultProtocol' = r.strDefaultProtocol
             /\ g_strDefaultFolder' = r.strDefaultFolder
             /\ g_strDefaultUsername' = r.strDefaultUsername
             /\ IF r.ok
                THEN /\ pc' = "Processing"
                     /\ bFoundHeader' = TRUE
                     /\ g_nDataLines' = g_nDataLines + 1
                     /\ UNCHANGED <<bFileOpen, strAbortCause, vMsgBox>>
                ELSE /\ pc' = "Aborted"
                     /\ strAbortCause' = r.cause
                     /\ bFileOpen' = FALSE
                     /\ vMsgBox' = Append(vMsgBox, [kind |-> r.cause, strErrors |-> <<>>])
                     /\ UNCHANGED <<bFoundHeader, g_nDataLines>>
    /\ UNCHANGED <<envVars, store, clock, accVars, vLineResults, report>>

\* the message box shown when the loop body returns
AbortMsgBox(strCause, strErrors) ==
    [kind |-> strCause,
     strErrors |-> IF strCause = "UnknownField" THEN strErrors ELSE <<>>]

\* variant: bFoundHeader is not looked at, and a data line is validated as a line of
\* field designations again
ReadDataLine_AsHeader ==
    /\ pc = "Processing"
    /\ Len(vFileLines) < MaxLines + 1
    /\ \E strLine \in LinesFor(strFieldDesignations) :
       \E strDelim \in (IF Contains(g_strDelimiter, strLine) THEN {"NONE"} ELSE PromptAnswers) :
       \E r \in {ValidateFieldDesignations(strLine, g_strDelimiter, strDelim,
                        strDefaultSessionProtocol, g_strDefaultProtocol,
                        g_strDefaultFolder, g_strDefaultUsername)} :
             /\ vFileLines' = Append(vFileLines, strLine)
             /\ g_nCurLineNumber' = g_nCurLineNumber + 1
             /\ g_strDelimiter' = r.strDelimiter
             /\ vPrompts' = IF Contains(g_strDelimiter, strLine) THEN vPrompts
                             ELSE Append(vPrompts, strDelim)
             /\ g_vFieldsArray' = r.vFieldsArray
             /\ g_strDefaultProtocol' = r.strDefaultProtocol
             /\ g_strDefaultFolder' = r.strDefaultFolder
             /\ g_strDefaultUsername' = r.strDefaultUsername
             /\ IF r.ok
                THEN /\ g_nDataLines' = g_nDataLines + 1
                     /\ UNCHANGED <<pc, bFileOpen, strAbortCause, vMsgBox>>
                ELSE /\ pc' = "Aborted"
                     /\ strAbortCause' = r.cause
                     /\ bFileOpen' = FALSE
                     /\ vMsgBox' = Append(vMsgBox, [kind |-> r.cause, strErrors |-> <<>>])
                     /\ UNCHANGED g_nDataLines
    /\ UNCHANGED <<envVars, store, clock, accVars, vLineResults, report, bFoundHeader,
                   strFieldDesignations>>

\* one data line: the body of the loop
ReadDataLine ==
    /\ pc = "Processing"
    /\ Len(vFileLines) < MaxLines + 1
    /\ \E strLine \in LinesFor(strFieldDesignations) :
       \E L1 \in {LineFields(strLine, g_nCurLineNumber + 1, g_vFieldsArray, g_strDelimiter,
                      g_strDefaultProtocol, g_strDefaultFolder, g_strErrors, g_nMajorVersion)} :
       \E V \in {Validations(L1, g_nCurLineNumber + 1, strLine, g_strBogusLinesNotImported,
                      g_strDefaultFolder, g_nMajorVersion, bWindows)} :
       \E N \in {NormalizeLine(strLine, g_nCurLineNumber + 1, L1, V, g_vFieldsArray,
                      g_strDelimiter, g_strDefaultUsername, g_strErrors,
                      g_strBogusLinesNotImported)} :
       \E bHonored \in (IF N.L.bSaveSession THEN BOOLEAN ELSE {TRUE}),
          t \in (IF N.L.bSaveSession /\ SessionExists(store, N.strSessionPath)
                 THEN clock..MaxClock ELSE {clock}) :
       \E r \in {IF N.L.bSaveSession
                 THEN CreateSession(N, bHonored, t, strDefaultSessionProtocol,
                                    g_strSessionsCreated, store)
                 ELSE NotCreated(N, g_strSessionsCreated, store)} :
          /\ vFileLines' = Append(vFileLines, strLine)
          /\ g_nCurLineNumber' = g_nCurLineNumber + 1
          /\ g_strErrors' = N.L.strErrors
          /\ g_strBogusLinesNotImported' = N.strBogus
          /\ g_strSessionsCreated' = r.strCreated
          /\ g_nSessionsCreated' = IF r.outcome = "Created"
                                   THEN g_nSessionsCreated + 1 ELSE g_nSessionsCreated
          /\ store' = r.store
          /\ clock' = t
          /\ vLineResults' = Append(vLineResults,
                 [nLine |-> g_nCurLineNumber + 1, strLine |-> strLine,
                  vSessionInfo |-> Split(strLine, g_strDelimiter),
                  outcome |-> r.outcome, strSessionPath |-> r.strSessionPath,
                  L |-> [N.L EXCEPT !.strErrors = <<>>]])
          /\ IF r.outcome = "Aborted"
             THEN /\ pc' = "Aborted"
                  /\ strAbortCause' = r.strAbortCause
                  /\ bFileOpen' = FALSE
                  /\ vMsgBox' = Append(vMsgBox, AbortMsgBox(r.strAbortCause, N.L.strErrors))
                  /\ UNCHANGED g_nDataLines
             ELSE /\ g_nDataLines' = g_nDataLines + 1
                  /\ UNCHANGED <<pc, strAbortCause, bFileOpen, vMsgBox>>
    /\ UNCHANGED <<envVars, bFoundHeader, schemaVars, report>>

\* variant: the file is opened without a with block and is not closed after the loop
EndOfFile_LeavesOpen ==
    /\ pc \in {"AwaitingHeader", "Processing"}
    /\ pc' = "Reporting"
    /\ UNCHANGED <<envVars, store, clock, bFileOpen, vFileLines, g_nCurLineNumber,
                   bFoundHeader, schemaVars, accVars, g_nDataLines, vLineResults, vMsgBox,
                   strAbortCause, report>>

\* the end of the file: the with block is left
EndOfFile ==
    /\ pc \in {"AwaitingHeader", "Processing"}
    /\ pc' = "Reporting"
    /\ bFileOpen' = FALSE
    /\ UNCHANGED <<envVars, store, clock, vFileLines, g_nCurLineNumber, bFoundHeader,
                   schemaVars, accVars, g_nDataLines, vLineResults, vMsgBox,
                   strAbortCause, report>>

(***************************************************************************)
(* Import: the summary report                                              *)
(***************************************************************************)
\* strResults: the parts the report text is put together from
Results(strHeader, strErrors, strBogus, strCreated, nCreated, nDataLines) ==
    [bNotImportedSection |-> strBogus # <<>>,
     strHeader |-> IF strBogus # <<>> THEN strHeader ELSE "",
     vNotImported |-> strBogus,
     vErrors |-> strErrors,
     nSessionsCreated |-> nCreated,
     vSessionsCreated |-> IF nCreated > 0 THEN strCreated ELSE <<>>,
     nDataLines |-> nDataLines]

RECURSIVE WriteLoop(_, _, _, _)
\* for strFilename in cFilenames: try open ... ; vOpen[i] is what happens at location i
WriteLoop(i, bSuccess, vFailed, vOpen) ==
    IF i > Len(vOpen) THEN [bSuccess |-> bSuccess, iFile |-> 0, vFailed |-> vFailed]
    ELSE LET bS == IF vOpen[i].bOpen THEN TRUE ELSE bSuccess
             vF == IF vOpen[i].bOpen THEN vFailed ELSE Append(vFailed, ReportLocations[i])
         IN IF ~vOpen[i].bIsFile
            THEN WriteLoop(i + 1, FALSE, vF, vOpen)
            ELSE [bSuccess |-> bS, iFile |-> i, vFailed |-> vF]

\* where the report goes: a file, or the clipboard when no file could be opened
WriteReport(strResults, vOpen) ==
    LET w == WriteLoop(1, FALSE, <<>>, vOpen)
    IN [strDestination |-> IF w.bSuccess THEN ReportLocations[w.iFile] ELSE "Clipboard",
        strResults |-> strResults,
        vFailed |-> w.vFailed]

\* after the loop: build the report, write it, show it
Report ==
    /\ pc = "Reporting"
    /\ \E vOpen \in TriedOutcomes :
       \E r \in {WriteReport(Results(strFieldDesignations, g_strErrors,
                                       g_strBogusLinesNotImported, g_strSessionsCreated,
                                       g_nSessionsCreated, g_nDataLines), vOpen)} :
             /\ report' = r
             /\ vMsgBox' = IF r.strDestination = "Clipboard"
                           THEN Append(vMsgBox, [kind |-> "ResultsInClipboard", strErrors |-> <<>>])
                           ELSE vMsgBox
    /\ pc' = "Done"
    /\ UNCHANGED <<envVars, store, clock, bFileOpen, vFileLines, g_nCurLineNumber,
                   bFoundHeader, schemaVars, accVars, g_nDataLines, vLineResults,
                   strAbortCause>>

Next == StartImport \/ ReadHeader \/ ReadDataLine \/ EndOfFile \/ Report

Spec == Init /\ [][Next]_vars

\* the file is finite, so the loop reaches its end unless Import() returns before,
\* and the code after the loop runs to the end of Import()
LiveSpec == Spec /\ WF_vars(EndOfFile) /\ WF_vars(Report)

(***************************************************************************)
(* Properties                                                              *)
(***************************************************************************)
\* the separators the strings of a data file are split at
Separators == {",", ";", "=", "/"}

\* the strings in S and their pieces at the separators in D
WithPieces(S, D) ==
    S \cup UNION {{v[i] : i \in 1..Len(v)} : v \in {Split(s, d) : s \in S, d \in D}}

\* the strings the data files are made of: the lines, their fields and the parts of
\* these, each as it is and without the whitespace around it
FileStrings ==
    UNION {{s, Strip(s)} :
              s \in WithPieces(WithPieces(Headers \cup UNION {P.lines : P \in Pools},
                                          {",", ";"}), {"=", "/"})}

\* the str methods on the strings of the data files, as tables computed once
StripTable == [s \in FileStrings |-> Strip(s)]
LowerTable == [s \in FileStrings |-> Lower(s)]
UpperTable == [s \in FileStrings |-> Upper(s)]
SplitTable == [s \in FileStrings |-> [d \in Separators |-> Split(s, d)]]

\* Lower(s), looked up in the table when s is a string of the data files
InLower(s) == IF s \in FileStrings THEN LowerTable[s] ELSE Lower(s)

\* Upper(s), looked up in the table when s is a string of the data files
InUpper(s) == IF s \in FileStrings THEN UpperTable[s] ELSE Upper(s)

\* Strip(s), looked up in the table when s is a string of the data files
Stripped(s) == IF s \in FileStrings THEN StripTable[s] ELSE Strip(s)

\* Split(s, d), looked up in the table when s is a string of the data files
PiecesOf(s, d) ==
    IF s \in FileStrings /\ d \in Separators THEN SplitTable[s][d] ELSE Split(s, d)

\* the values of the data line of the result r
ValuesOf(r) == r.vSessionInfo

\* the data line of the result r has as many values as the header has fields
RightFieldCount(r) == Len(ValuesOf(r)) = Len(g_vFieldsArray)

\* an error message of one of the kinds is recorded for line nLine
HasError(kinds, nLine) ==
    \E j \in 1..Len(g_strErrors) : g_strErrors[j].kind \in kinds /\ g_strErrors[j].nLine = nLine

\* the text strLine is in the rejected-lines collection
InBogus(strLine) ==
    \E j \in 1..Len(g_strBogusLinesNotImported) : g_strBogusLinesNotImported[j] = strLine

\* the column of the field list vFields whose label is strName, 0 when there is none
ColumnIn(vFields, strName) ==
    LET idx == {i \in 1..Len(vFields) : InLower(Stripped(vFields[i])) = strName}
    IN IF idx = {} THEN 0 ELSE SetMin(idx)

\* the labels the properties look up
ColumnNames == {"emulation", "hostname", "logon_script", "port", "protocol", "session_name"}

\* the field lists of the header lines, with and without the defaults after '='
HeaderArrays ==
    UNION {{v, [i \in 1..Len(v) |-> PiecesOf(v[i], "=")[1]]} :
              v \in {PiecesOf(h, d) : h \in Headers, d \in {",", ";"}}}

\* the columns of the labels in the field lists of the header lines, computed once
ColumnTable == [v \in HeaderArrays |-> [n \in ColumnNames |-> ColumnIn(v, n)]]

\* the column of the current header whose label is strName, 0 when there is none
ColumnOf(strName) ==
    IF g_vFieldsArray \in HeaderArrays /\ strName \in ColumnNames
    THEN ColumnTable[g_vFieldsArray][strName]
    ELSE ColumnIn(g_vFieldsArray, strName)

\* the results of the data lines that went through the loop over the fields
FieldResults ==
    {i \in 1..Len(vLineResults) :
        RightFieldCount(vLineResults[i]) /\ ~vLineResults[i].L.bUnknownField}

\* C1: a header line whose field list has no 'hostname' (case-insensitive) aborts the
\* run: no data line is processed, no session is created, no error or rejected line
\* is accumulated and no report is produced
C1_MissingHostnameAborts ==
    (/\ Len(vFileLines) >= 1
     /\ \A v \in {PiecesOf(vFileLines[1], g_strDelimiter)} :
           \A i \in 1..Len(v) : InLower(v[i]) # "hostname")
    => /\ pc = "Aborted"
       /\ Len(vFileLines) = 1
       /\ vLineResults = <<>>
       /\ g_strErrors = <<>>
       /\ g_strBogusLinesNotImported = <<>>
       /\ g_strSessionsCreated = <<>>
       /\ g_nSessionsCreated = 0
       /\ store = ExistingSessions
       /\ report = NoReport

C1_Witness ==
    /\ pc = "Aborted"
    /\ strAbortCause = "MissingHostname"
    /\ vFileLines = <<"host,protocol">>

\* C2: a data line whose number of values differs from the number of header fields
\* (too few or too many) creates no session, is appended verbatim to the
\* rejected-lines collection, and the next line is processed
C2_FieldCountMismatchRejected ==
    \A i \in 1..Len(vLineResults) :
        ~RightFieldCount(vLineResults[i])
        => /\ vLineResults[i].outcome = "Rejected"
           /\ InBogus(vLineResults[i].strLine)
           /\ (i = Len(vLineResults) => pc # "Aborted")

\* C3: at report time every line rejected for a recoverable reason has its original
\* text in the rejected-lines collection, besides its error message
RecoverableKinds ==
    {"InvalidPort", "InvalidProtocol", "UnsupportedProtocol", "EmptyHostname",
     "InvalidEmulation", "UnsupportedEmulationVersion", "InvalidCharacter",
     "ReservedName", "RdpVersion", "RdpPlatform"}

C3_RejectedLinesCollected ==
    pc \in {"Reporting", "Done"}
    => \A j \in 1..Len(g_strErrors) :
          g_strErrors[j].kind \in RecoverableKinds => InBogus(g_strErrors[j].strLine)

\* the conditions of a data line that end the run
FatalLineCauses == {"UnknownField", "ProtocolMismatch", "RdpLogonScript", "RdpEmulation"}

\* C4: with a valid header and data lines that raise only recoverable conditions the
\* run processes every line, reaches the reporting phase and produces a report, also
\* when every line is rejected and no session is created
C4_RunYieldsReport ==
    /\ [](pc = "Aborted" /\ bFoundHeader
            => /\ vLineResults # <<>>
               /\ vLineResults[Len(vLineResults)].outcome = "Aborted"
               /\ strAbortCause \in FatalLineCauses)
    /\ [](\A i \in 1..Len(vLineResults) :
            vLineResults[i].outcome = "Rejected"
            => (i = Len(vLineResults) => pc \in {"Processing", "Reporting", "Done"}))
    /\ [](pc = "Done"
            => /\ report.strDestination \in {"Documents", "Desktop", "Config", "Clipboard"}
               /\ report.strResults.nDataLines = Len(vFileLines)
               /\ Len(vLineResults) + (IF bFoundHeader THEN 1 ELSE 0) = Len(vFileLines)
               /\ report.strResults.vErrors = g_strErrors
               /\ report.strResults.vNotImported = g_strBogusLinesNotImported)
    /\ (pc = "Processing" ~> pc \in {"Done", "Aborted"})

C4_Witness ==
    /\ pc = "Done"
    /\ bFoundHeader
    /\ Len(vLineResults) = MaxLines
    /\ \A i \in 1..Len(vLineResults) : vLineResults[i].outcome = "Rejected"
    /\ g_nSessionsCreated = 0
    /\ report.strDestination = "Clipboard"

\* C5 as stated: once the file is read, only a missing hostname, an unresolvable
\* delimiter, an unknown header field or a protocol mismatch after creation ends the
\* run before the end of the file
C5_OnlyListedFatalConditions ==
    pc = "Aborted"
    => strAbortCause \in {"MissingHostname", "NoDelimiter", "UnknownField", "ProtocolMismatch"}

\* what in the last data line justifies the abort cause
AbortJustified ==
    LET r == vLineResults[Len(vLineResults)]
    IN /\ r.outcome = "Aborted"
       /\ RightFieldCount(r)
       /\ strAbortCause = "UnknownField" => r.L.bUnknownField
       /\ strAbortCause = "ProtocolMismatch"
            => /\ r.L.bSaveSession
               /\ store[r.strSessionPath].strProtocol # r.L.strProtocol
       /\ strAbortCause = "RdpLogonScript"
            => r.L.strProtocol = "RDP" /\ ValuesOf(r)[ColumnOf("logon_script")] # ""
       /\ strAbortCause = "RdpEmulation"
            => r.L.strProtocol = "RDP" /\ ValuesOf(r)[ColumnOf("emulation")] # ""

\* C5 amended: the run ends before the end of the file only on a missing hostname, an
\* unresolvable delimiter, an unknown header field, a protocol mismatch after creation,
\* or a logon_script or emulation value on a line whose protocol is RDP; no other line
\* stops the processing of the lines after it
C5_AbortOnlyOnFatal ==
    /\ pc = "Aborted"
         => \/ strAbortCause \in {"MissingHostname", "NoDelimiter"} /\ vLineResults = <<>>
            \/ strAbortCause \in FatalLineCauses /\ vLineResults # <<>> /\ AbortJustified
    /\ \A i \in 1..Len(vLineResults) :
          vLineResults[i].outcome = "Aborted" => i = Len(vLineResults) /\ pc = "Aborted"

C5_Witness ==
    /\ pc = "Aborted"
    /\ strAbortCause = "RdpEmulation"
    /\ Len(vLineResults) = 2
    /\ vLineResults[1].outcome = "Rejected"

\* the supported field vocabulary
SupportedFields ==
    {"session_name", "folder", "hostname", "protocol", "port", "username",
     "emulation", "description", "logon_script", "domain"}

\* C6: a header with a field name outside the supported vocabulary (case-insensitive)
\* aborts the run: the reporting phase is never reached and no session is created
C6_UnknownHeaderFieldAborts ==
    (/\ bFoundHeader
     /\ \E i \in 1..Len(g_vFieldsArray) : InLower(g_vFieldsArray[i]) \notin SupportedFields)
    => /\ pc \notin {"Reporting", "Done"}
       /\ g_nSessionsCreated = 0
       /\ g_strSessionsCreated = <<>>

\* RDP is supported by the host application: version 9 or later on Windows
RdpSupported == g_nMajorVersion >= 9 /\ bWindows

\* C7: no session whose resolved protocol is RDP is created unless the major version
\* is at least 9 and the platform is Windows; elsewhere a line whose protocol resolves
\* to RDP is rejected whatever its other fields are
C7_RdpGate ==
    /\ \A p \in DOMAIN store : store[p].strProtocol = "RDP" => RdpSupported
    /\ \A i \in FieldResults :
          vLineResults[i].L.strProtocol = "RDP"
          => IF RdpSupported
             THEN ~HasError({"RdpVersion", "RdpPlatform"}, vLineResults[i].nLine)
             ELSE /\ vLineResults[i].outcome = "Rejected"
                  /\ vLineResults[i].strSessionPath = ""
                  /\ InBogus(vLineResults[i].strLine)
                  /\ HasError({"RdpVersion", "RdpPlatform"}, vLineResults[i].nLine)

C7_Witness ==
    /\ g_nMajorVersion >= 9
    /\ ~bWindows
    /\ Len(vLineResults) = 1
    /\ vLineResults[1].strLine = "h1,"
    /\ vLineResults[1].L.strProtocol = "RDP"
    /\ vLineResults[1].outcome = "Rejected"

\* the protocol a token stands for, "" when it stands for none
ProtocolTable(strToken) ==
    LET t == InLower(Stripped(strToken))
    IN IF t = "ssh2" THEN "SSH2"
       ELSE IF t = "ssh1" THEN "SSH1"
       ELSE IF t = "telnet" THEN "Telnet"
       ELSE IF t = "rlogin" THEN "RLogin"
       ELSE IF t \notin {"serial", "tapi"} /\ Contains("rdp", t) THEN "RDP"
       ELSE ""

\* C8: the protocol token of a data line is matched case-insensitively: ssh2, ssh1,
\* telnet, rlogin give SSH2, SSH1, Telnet, RLogin, a token containing rdp gives RDP;
\* serial and tapi reject the line as unsupported; any other token is replaced by the
\* default protocol when there is one and rejects the line as invalid otherwise
C8_ProtocolNormalization ==
    \A c \in {ColumnOf("protocol")} :
    c # 0
    => \A i \in FieldResults :
          \A r \in {vLineResults[i]} :
          \A strToken \in {ValuesOf(vLineResults[i])[c]} :
          \A strProtocol \in {ProtocolTable(strToken)} :
             IF strProtocol # ""
             THEN /\ r.L.strProtocol = strProtocol
                  /\ ~HasError({"UnsupportedProtocol", "InvalidProtocol"}, r.nLine)
             ELSE IF InLower(Stripped(strToken)) \in {"serial", "tapi"}
             THEN /\ r.outcome = "Rejected"
                  /\ HasError({"UnsupportedProtocol"}, r.nLine)
             ELSE IF g_strDefaultProtocol # ""
             THEN /\ r.L.strProtocol = g_strDefaultProtocol
                  /\ ~HasError({"UnsupportedProtocol", "InvalidProtocol"}, r.nLine)
             ELSE /\ r.outcome = "Rejected"
                  /\ HasError({"InvalidProtocol"}, r.nLine)

C8_Witness ==
    /\ Len(vLineResults) = 2
    /\ vLineResults[1].strLine = "h1,Ssh2"
    /\ vLineResults[1].L.strProtocol = "SSH2"
    /\ vLineResults[1].outcome = "Created"
    /\ vLineResults[2].strLine = "h1,serial"
    /\ vLineResults[2].outcome = "Rejected"

\* C9: the protocol of every created record is one of SSH2, SSH1, Telnet, RLogin, RDP
\* or the recorded default protocol; when the header has neither a protocol field nor
\* a protocol default it is the protocol of the Default session
C9_CreatedProtocol ==
    \A i \in 1..Len(vLineResults) :
        vLineResults[i].outcome = "Created"
        => /\ \/ vLineResults[i].L.strProtocol \in {"SSH2", "SSH1", "Telnet", "RLogin", "RDP"}
              \/ vLineResults[i].L.strProtocol = g_strDefaultProtocol
           /\ ~Contains("protocol", InLower(strFieldDesignations))
                => vLineResults[i].L.strProtocol = strDefaultSessionProtocol

\* the canonical spelling of an emulation, "" when the value is none of them
EmulationTable(strValue) ==
    LET t == InLower(Stripped(strValue))
    IN IF t = "xterm" THEN "Xterm"
       ELSE IF t \in {"vt100", "vt102", "vt220", "vt320", "ansi", "scoansi", "wyse50", "wyse60"}
       THEN InUpper(t)
       ELSE IF t = "linux" THEN "Linux"
       ELSE IF t = "vshell" THEN "VShell"
       ELSE ""

\* C10: the emulation value of a data line is matched case-insensitively: xterm, vt100,
\* vt102, vt220, ansi, linux, scoansi, vshell, wyse50, wyse60 give their canonical
\* spelling; vt320 gives VT320 from major version 8 on and rejects the line below 8;
\* every other value rejects the line as invalid emulation
C10_EmulationNormalization ==
    \A c \in {ColumnOf("emulation")} :
    c # 0
    => \A i \in FieldResults :
          \A r \in {vLineResults[i]} :
          \A strCanonical \in {EmulationTable(ValuesOf(vLineResults[i])[c])} :
             IF strCanonical = ""
             THEN /\ r.outcome = "Rejected"
                  /\ HasError({"InvalidEmulation"}, r.nLine)
             ELSE IF strCanonical = "VT320" /\ g_nMajorVersion < 8
             THEN /\ r.outcome = "Rejected"
                  /\ HasError({"UnsupportedEmulationVersion"}, r.nLine)
                  /\ ~HasError({"InvalidEmulation"}, r.nLine)
             ELSE /\ r.L.strEmulation = strCanonical
                  /\ ~HasError({"InvalidEmulation", "UnsupportedEmulationVersion"}, r.nLine)

C10_Witness ==
    /\ g_nMajorVersion = 8
    /\ Len(vLineResults) = 2
    /\ vLineResults[1].strLine = " VT320 ,h1"
    /\ vLineResults[1].L.strEmulation = "VT320"
    /\ vLineResults[1].outcome = "Created"
    /\ vLineResults[2].strLine = "xterm-256,h1"
    /\ vLineResults[2].outcome = "Rejected"

\* C11: the port of every created record, when the data line gives one, is a
\* positive integer (at least 1); a line whose non-empty port value is not such a
\* number is rejected as invalid port
C11_PortPositive ==
    \A i \in FieldResults :
       \A r \in {vLineResults[i]} :
          r.L.strPort # ""
          => IF IsDigit(r.L.strPort) /\ ParseInt(r.L.strPort) >= 1
             THEN ~HasError({"InvalidPort"}, r.nLine)
             ELSE /\ r.outcome = "Rejected"
                  /\ HasError({"InvalidPort"}, r.nLine)

\* the data lines for which the code went into "if bSaveSession"
SavedResults == {i \in 1..Len(vLineResults) : vLineResults[i].L.bSaveSession}

\* C12: the session name of every created record is the session_name value of the
\* data line when the header has that field and the value is not empty, and the
\* hostname of the record otherwise; so session name and hostname of a created
\* record are never empty, and a line with an empty hostname value is rejected
C12_SessionNameFallback ==
    \A cName \in {ColumnOf("session_name")}, cHost \in {ColumnOf("hostname")} :
    \A i \in 1..Len(vLineResults) :
       \A r \in {vLineResults[i]} :
       (r.L.bSaveSession \/ i \in FieldResults)
       => \A strHost \in {Stripped(ValuesOf(r)[cHost])} :
             /\ r.L.bSaveSession
                => /\ r.L.strHostName # ""
                   /\ r.L.strSessionName # ""
                   /\ r.L.strHostName = strHost
                   /\ \A strName \in {IF cName # 0 THEN Stripped(ValuesOf(r)[cName]) ELSE ""} :
                         IF strName # ""
                         THEN r.L.strSessionName = strName
                         ELSE r.L.strSessionName = r.L.strHostName
             /\ (i \in FieldResults /\ strHost = "")
                => /\ r.outcome = "Rejected"
                   /\ HasError({"EmptyHostname"}, r.nLine)

C12_Witness ==
    /\ ~bWindows
    /\ Len(vLineResults) = 2
    /\ vLineResults[1].strLine = ",h1,"
    /\ vLineResults[1].outcome = "Created"
    /\ vLineResults[1].L.strSessionName = "h1"
    /\ vLineResults[2].strLine = "CON,h1,f"
    /\ vLineResults[2].outcome = "Created"
    /\ vLineResults[2].L.strSessionName = "CON"

\* the characters no folder may contain, and those no session name may contain
ForbiddenInFolder == {"|", ":", "*", "?", "\"", "<", ">"}
ForbiddenInSession == ForbiddenInFolder \cup {"/"}

\* the positions of s that hold one of the characters
Offending(chars, s) == {k \in 1..Len(s) : SubSeq(s, k, k) \in chars}

\* line r has the invalid-character message of the component strType, carrying
\* the first offending character of s and the original line
HasCharacterError(r, strType, chars, s) ==
    \E j \in 1..Len(g_strErrors) :
       /\ g_strErrors[j].kind = "InvalidCharacter"
       /\ g_strErrors[j].nLine = r.nLine
       /\ g_strErrors[j].strLine = r.strLine
       /\ g_strErrors[j].strDetail = strType
       /\ \E k \in Offending(chars, s) :
             /\ g_strErrors[j].strValue = SubSeq(s, k, k)
             /\ \A n \in Offending(chars, s) : k <= n

\* no invalid-character message of the component strType is recorded for line r
NoCharacterError(r, strType) ==
    \A j \in 1..Len(g_strErrors) :
       ~(/\ g_strErrors[j].kind = "InvalidCharacter"
         /\ g_strErrors[j].nLine = r.nLine
         /\ g_strErrors[j].strDetail = strType)

\* C13: a session name with one of | : * ? " < > / and a folder with one of
\* | : * ? " < > are rejected: the message carries the first offending character and
\* the original line, the line is in the rejected-lines collection and no session
\* is created for it; a / in a folder is accepted
C13_NameValidator ==
    \A i \in FieldResults :
       \A r \in {vLineResults[i]} :
          /\ IF Offending(ForbiddenInSession, r.L.strSessionName) # {}
             THEN /\ r.outcome = "Rejected"
                  /\ r.strSessionPath = ""
                  /\ InBogus(r.strLine)
                  /\ HasCharacterError(r, "session", ForbiddenInSession, r.L.strSessionName)
             ELSE NoCharacterError(r, "session")
          /\ IF Offending(ForbiddenInFolder, r.L.strFolderOrig) # {}
             THEN /\ r.outcome = "Rejected"
                  /\ r.strSessionPath = ""
                  /\ InBogus(r.strLine)
                  /\ HasCharacterError(r, "folder", ForbiddenInFolder, r.L.strFolderOrig)
             ELSE NoCharacterError(r, "folder")

C13_Witness ==
    /\ ~bWindows
    /\ Len(vLineResults) = 2
    /\ vLineResults[1].strLine = "a/b,h1,f"
    /\ vLineResults[1].outcome = "Rejected"
    /\ vLineResults[2].strLine = "s1,h1,x/con/y"
    /\ vLineResults[2].outcome = "Created"
    /\ vLineResults[2].strSessionPath = "x/con/y/s1"

\* the reserved device names
DeviceNames ==
    {"CON", "PRN", "AUX", "NUL"} \cup
    {"COM" \o SubSeq("0123456789", d, d) : d \in 1..10} \cup
    {"LPT" \o SubSeq("0123456789", d, d) : d \in 1..10}

\* the folder path has a whole '/'-separated segment that is a reserved device name
HasDeviceSegment(strFolder) ==
    \A v \in {PiecesOf(strFolder, "/")} : \E k \in 1..Len(v) : InUpper(v[k]) \in DeviceNames

\* the reserved-name message of the component strType is recorded for line r
HasReservedError(r, strType) ==
    \E j \in 1..Len(g_strErrors) :
       /\ g_strErrors[j].kind = "ReservedName"
       /\ g_strErrors[j].nLine = r.nLine
       /\ g_strErrors[j].strLine = r.strLine
       /\ g_strErrors[j].strDetail = strType
       /\ InUpper(g_strErrors[j].strValue) \in DeviceNames

\* C14: on Windows a session name that is a reserved device name, and a folder path
\* with a reserved device name as one whole segment (first, middle or last), in any
\* letter case, are rejected; elsewhere the same names are accepted
C14_ReservedNames ==
    \A i \in FieldResults :
       \A r \in {vLineResults[i]} :
          /\ (/\ InUpper(r.L.strSessionName) \in DeviceNames
              /\ Offending(ForbiddenInSession, r.L.strSessionName) = {})
             => IF bWindows
                THEN /\ r.outcome = "Rejected"
                     /\ r.strSessionPath = ""
                     /\ InBogus(r.strLine)
                     /\ HasReservedError(r, "session")
                ELSE ~HasReservedError(r, "session")
          /\ (/\ HasDeviceSegment(r.L.strFolderOrig)
              /\ Offending(ForbiddenInFolder, r.L.strFolderOrig) = {})
             => IF bWindows
                THEN /\ r.outcome = "Rejected"
                     /\ r.strSessionPath = ""
                     /\ InBogus(r.strLine)
                     /\ HasReservedError(r, "folder")
                ELSE ~HasReservedError(r, "folder")
          /\ ~bWindows => ~HasError({"ReservedName"}, r.nLine)
          /\ (~HasDeviceSegment(r.L.strFolderOrig) /\ InUpper(r.L.strSessionName) \notin DeviceNames)
             => ~HasError({"ReservedName"}, r.nLine)

C14_Witness ==
    /\ bWindows
    /\ Len(vLineResults) = 2
    /\ vLineResults[1].strLine = "x/Lpt9,h1"
    /\ vLineResults[1].outcome = "Rejected"
    /\ vLineResults[2].strLine = "console/x,h1"
    /\ vLineResults[2].outcome = "Created"

\* C15: with overwriting disabled no session is saved at a path where a session
\* already exists: the paths the run saved at are distinct from each other and from
\* the paths of the sessions that were in the store before the run
C15_NoOverwrite ==
    \A i \in SavedResults :
       /\ vLineResults[i].strSessionPath \notin DOMAIN ExistingSessions
       /\ \A j \in SavedResults :
             i # j => vLineResults[i].strSessionPath # vLineResults[j].strSessionPath

\* the fields of the header line as the file gives them
HeaderTokens == PiecesOf(strFieldDesignations, g_strDelimiter)

\* the default recorded for the field strName
RecordedDefault(strName) ==
    IF strName = "protocol" THEN g_strDefaultProtocol
    ELSE IF strName = "folder" THEN g_strDefaultFolder
    ELSE g_strDefaultUsername

\* what a saved line has for the field strName
ValueOfField(r, strName) ==
    IF strName = "protocol" THEN r.L.strProtocol
    ELSE IF strName = "folder" THEN r.L.strFolderOrig
    ELSE r.L.strUserName

\* a data line whose value in column k is empty has the recorded default of strName
EmptyTakesDefault(k, strName) ==
    \A i \in SavedResults :
       Stripped(ValuesOf(vLineResults[i])[k]) = ""
       => ValueOfField(vLineResults[i], strName) = RecordedDefault(strName)

\* C16 as stated: a header token name=value with name protocol, folder or username
\* leaves the bare name as the schema field and records the value, as written, as
\* the default of the field; a data line with an empty value in that column takes
\* the recorded default
C16_DefaultsAsWritten ==
    bFoundHeader
    => \A tokens \in {HeaderTokens} :
       \A k \in 1..Len(tokens) :
       \A v \in {PiecesOf(tokens[k], "=")} :
          Len(v) = 2
          => \A strName \in {InLower(v[1])} :
                strName \in {"protocol", "folder", "username"}
                => /\ g_vFieldsArray[k] = strName
                   /\ RecordedDefault(strName) = v[2]
                   /\ EmptyTakesDefault(k, strName)

\* the default the code records for the value of a name=value token
DefaultFrom(strName, strValue) == IF strName = "protocol" THEN InUpper(strValue) ELSE strValue

\* C16 amended: the recorded default is the value as written for folder and
\* username, and the value in upper case for protocol
C16_HeaderDefaults ==
    bFoundHeader
    => \A tokens \in {HeaderTokens} :
       \A k \in 1..Len(tokens) :
       \A v \in {PiecesOf(tokens[k], "=")} :
          Len(v) = 2
          => \A strName \in {InLower(v[1])} :
                strName \in {"protocol", "folder", "username"}
                => /\ g_vFieldsArray[k] = strName
                   /\ RecordedDefault(strName) = DefaultFrom(strName, v[2])
                   /\ EmptyTakesDefault(k, strName)

C16_Witness ==
    /\ strFieldDesignations = "hostname,username,folder,protocol=SSH2"
    /\ g_strDefaultProtocol = "SSH2"
    /\ Len(vLineResults) = 1
    /\ vLineResults[1].strLine = "192.168.0.3,root,_imported/folderA,"
    /\ vLineResults[1].outcome = "Created"
    /\ vLineResults[1].L.strProtocol = "SSH2"
    /\ vLineResults[1].L.strSessionName = "192.168.0.3"

\* C17: when the configured delimiter does not occur in the header line the user is
\* asked for one: an empty answer aborts the run before any data line is processed,
\* the answer NONE keeps the configured delimiter and takes the header as one field,
\* any other answer is the delimiter that splits the header and every data line
C17_DelimiterPrompt ==
    Len(vFileLines) >= 1
    => IF Contains(ConfiguredDelimiter, vFileLines[1])
       THEN vPrompts = <<>> /\ g_strDelimiter = ConfiguredDelimiter
       ELSE /\ Len(vPrompts) = 1
            /\ vPrompts[1] = ""
                 => /\ pc = "Aborted"
                    /\ Len(vFileLines) = 1
                    /\ vLineResults = <<>>
                    /\ g_nSessionsCreated = 0
            /\ vPrompts[1] = "NONE"
                 => /\ g_strDelimiter = ConfiguredDelimiter
                    /\ g_vFieldsArray = <<vFileLines[1]>>
            /\ vPrompts[1] \notin {"", "NONE"}
                 => /\ g_strDelimiter = vPrompts[1]
                    /\ g_vFieldsArray = PiecesOf(vFileLines[1], vPrompts[1])
                    /\ \A i \in 1..Len(vLineResults) :
                          /\ ValuesOf(vLineResults[i]) = PiecesOf(vLineResults[i].strLine, vPrompts[1])
                          /\ vLineResults[i].outcome = "Created"
                               => Len(ValuesOf(vLineResults[i])) = Len(g_vFieldsArray)

C17_Witness ==
    /\ vFileLines = <<"hostname;port", "h1;22", "h1,22">>
    /\ vPrompts = <<";">>
    /\ vLineResults[1].outcome = "Created"
    /\ vLineResults[1].L.strPort = "22"
    /\ vLineResults[2].outcome = "Rejected"

RECURSIVE CreatedPaths(_)
\* the paths of the sessions created by the first n data lines, in line order
CreatedPaths(n) ==
    IF n = 0 THEN <<>>
    ELSE IF vLineResults[n].outcome = "Created"
    THEN Append(CreatedPaths(n - 1), vLineResults[n].strSessionPath)
    ELSE CreatedPaths(n - 1)

\* the entries of the rejected-lines collection can be matched to rejected data
\* lines in ascending order
BogusInLineOrder ==
    \E f \in [1..Len(g_strBogusLinesNotImported) -> 1..Len(vLineResults)] :
       /\ \A j \in 1..Len(g_strBogusLinesNotImported) :
             /\ vLineResults[f[j]].strLine = g_strBogusLinesNotImported[j]
             /\ vLineResults[f[j]].outcome = "Rejected"
       /\ \A j, k \in 1..Len(g_strBogusLinesNotImported) : j < k => f[j] <= f[k]

\* the error messages are in ascending order of their line numbers
ErrorsInLineOrder ==
    \A j, k \in 1..Len(g_strErrors) : j < k => g_strErrors[j].nLine <= g_strErrors[k].nLine

\* C18: at every point of the run the created-path list, the rejected-lines
\* collection and the error messages each list their entries in ascending order of
\* the input line that produced them
C18_LineOrder ==
    /\ g_strSessionsCreated = CreatedPaths(Len(vLineResults))
    /\ (g_strBogusLinesNotImported # <<>> => BogusInLineOrder)
    /\ ErrorsInLineOrder

\* C19: a run that ends on an unknown header field or on a protocol mismatch
\* after errors were accumulated shows the accumulated error text in the
\* message box of the abort, and writes no report
C19_AbortShowsErrors ==
    (/\ pc = "Aborted"
     /\ strAbortCause \in {"UnknownField", "ProtocolMismatch"}
     /\ g_strErrors # <<>>)
    => /\ vMsgBox # <<>>
       /\ vMsgBox[Len(vMsgBox)].kind = strAbortCause
       /\ vMsgBox[Len(vMsgBox)].strErrors = g_strErrors
       /\ report = NoReport

\* C20: the run goes from AwaitingHeader to Processing, from Processing to
\* Reporting and from Reporting to Done; the reporting phase is entered only
\* from Processing, after a header line was parsed successfully, whatever the
\* file holds (an empty file included)
C20_PhaseOrder ==
    [][/\ pc' = "Processing" /\ pc # "Processing" => pc = "AwaitingHeader" /\ bFoundHeader'
       /\ pc' = "Reporting" /\ pc # "Reporting" => pc = "Processing" /\ bFoundHeader
       /\ pc' = "Done" /\ pc # "Done" => pc = "Reporting"]_vars

\* the normalized field values of a data line
FieldValues(L) ==
    <<L.strSessionName, L.strHostName, L.strProtocol, L.strPort, L.strUserName,
      L.strEmulation, L.strFolderOrig, L.strDescription, L.strLogonScript, L.strDomain>>

\* the data line of the result r, normalized as the first data line of a file with
\* the same header: nothing was processed before it
SameAsFirstLine(r) ==
    \A L1 \in {LineFields(r.strLine, 2, g_vFieldsArray, g_strDelimiter, g_strDefaultProtocol,
                          g_strDefaultFolder, <<>>, g_nMajorVersion)} :
    \A V \in {Validations(L1, 2, r.strLine, <<>>, g_strDefaultFolder, g_nMajorVersion, bWindows)} :
    \A N \in {RightCount(L1, V, <<>>, g_strDefaultUsername)} :
       /\ N.L.bSaveSession
       /\ FieldValues(N.L) = FieldValues(r.L)

C22_ReportFallback ==
    pc = "Done"
    => /\ report.strDestination \in {"Documents", "Desktop", "Config", "Clipboard"}
       /\ \A i \in 1..Len(ReportLocations) :
             report.strDestination = ReportLocations[i]
             => report.vFailed = SubSeq(ReportLocations, 1, i - 1)
       /\ report.strDestination = "Clipboard" => report.vFailed = ReportLocations
       /\ report.strDestination = "Clipboard"
          <=> (vMsgBox # <<>> /\ vMsgBox[Len(vMsgBox)].kind = "ResultsInClipboard")

\* the run is over
Terminal == pc \in {"Done", "Aborted", "Cancelled"}

\* C23: the handle of the data file is open exactly while the lines are iterated
\* (before the header and between data lines), and it is closed in every terminal
\* state: after the end of the file, after an abort on the header, on an unknown
\* field and after the creation of a record
C23_FileHandleScoped ==
    /\ bFileOpen <=> pc \in {"AwaitingHeader", "Processing"}
    /\ Terminal => ~bFileOpen
    /\ pc = "Reporting" => ~bFileOpen

C23_Witness ==
    /\ pc = "Aborted"
    /\ strAbortCause = "ProtocolMismatch"
    /\ Len(vLineResults) = 2
    /\ vLineResults[1].outcome = "Created"
    /\ vLineResults[2].outcome = "Aborted"
    /\ ~bFileOpen

\* an error message is recorded for line nLine
HasAnyError(nLine) == \E j \in 1..Len(g_strErrors) : g_strErrors[j].nLine = nLine

\* C24: every data line that was processed without ending the run has exactly one
\* outcome: it is created, with one path in the created list and no error message
\* for the line, or it is rejected, with at least one error message for the line and
\* no path in the created list
C24_OneOutcomePerLine ==
    /\ g_strSessionsCreated = CreatedPaths(Len(vLineResults))
    /\ \A i \in 1..Len(vLineResults) :
          \A r \in {vLineResults[i]} :
             /\ r.outcome \in {"Created", "Rejected", "Aborted"}
             /\ r.outcome = "Created" => r.strSessionPath # "" /\ ~HasAnyError(r.nLine)
             /\ r.outcome = "Rejected" => HasAnyError(r.nLine)

C24_Witness ==
    /\ Len(vLineResults) = 2
    /\ vLineResults[1].outcome = "Rejected"
    /\ vLineResults[2].outcome = "Created"
    /\ Len(g_strSessionsCreated) = 1
    /\ HasAnyError(2)
    /\ ~HasAnyError(3)

\* every check that the data line of the result r fails has its own message; the
\* checks are told by the values of the line:
\* port, protocol, hostname and emulation by their columns, session name and folder
\* by their characters, the RDP gate by the resolved protocol
EveryFailedCheckHasMessage(r) ==
    \A cPort \in {ColumnOf("port")}, cProtocol \in {ColumnOf("protocol")},
       cHost \in {ColumnOf("hostname")}, cEmulation \in {ColumnOf("emulation")} :
    \A strPort \in {IF cPort # 0 THEN Stripped(ValuesOf(r)[cPort]) ELSE ""},
       strToken \in {IF cProtocol # 0 THEN InLower(Stripped(ValuesOf(r)[cProtocol])) ELSE "ssh2"},
       strEmulation \in {IF cEmulation # 0 THEN EmulationTable(ValuesOf(r)[cEmulation]) ELSE "Xterm"} :
       /\ (strPort # "" /\ ~IsDigit(strPort)) => HasError({"InvalidPort"}, r.nLine)
       /\ (strToken \in {"serial", "tapi"}) => HasError({"UnsupportedProtocol"}, r.nLine)
       /\ (ProtocolTable(strToken) = "" /\ strToken \notin {"serial", "tapi"}
             /\ g_strDefaultProtocol = "") => HasError({"InvalidProtocol"}, r.nLine)
       /\ (cHost # 0 /\ Stripped(ValuesOf(r)[cHost]) = "") => HasError({"EmptyHostname"}, r.nLine)
       /\ strEmulation = "" => HasError({"InvalidEmulation"}, r.nLine)
       /\ (strEmulation = "VT320" /\ g_nMajorVersion < 8)
          => HasError({"UnsupportedEmulationVersion"}, r.nLine)
       /\ Offending(ForbiddenInSession, r.L.strSessionName) # {}
          => HasCharacterError(r, "session", ForbiddenInSession, r.L.strSessionName)
       /\ Offending(ForbiddenInFolder, r.L.strFolderOrig) # {}
          => HasCharacterError(r, "folder", ForbiddenInFolder, r.L.strFolderOrig)
       /\ (r.L.strProtocol = "RDP" /\ ~RdpSupported)
          => HasError({"RdpVersion", "RdpPlatform"}, r.nLine)

\* the messages recorded for line nLine
MessagesOf(nLine) == {j \in 1..Len(g_strErrors) : g_strErrors[j].nLine = nLine}

\* C25: a data line with the right field count is checked to the end: every failing
\* check (invalid port, unsupported or invalid protocol, empty hostname, invalid
\* emulation, invalid session name, invalid folder, RDP gate) has its own message,
\* also when another check of the line failed before it, and the line is rejected
C25_AllFailuresReported ==
    \A i \in FieldResults :
       \A r \in {vLineResults[i]} :
          /\ EveryFailedCheckHasMessage(r)
          /\ MessagesOf(r.nLine) # {} => r.outcome = "Rejected"

C25_Witness ==
    /\ ~RdpSupported
    /\ Len(vLineResults) = 1
    /\ vLineResults[1].strLine = ",rdp,xterm"
    /\ vLineResults[1].outcome = "Rejected"
    /\ HasError({"EmptyHostname"}, 2)
    /\ HasError({"RdpVersion", "RdpPlatform"}, 2)
    /\ Cardinality(MessagesOf(2)) >= 2

\* the schema: the field list, the delimiter and the recorded defaults
Schema ==
    <<g_vFieldsArray, g_strDelimiter, g_strDefaultProtocol, g_strDefaultFolder,
      g_strDefaultUsername>>

\* C26: the schema is built once, by the step that reads the first line of the
\* file, and no later step changes it: the field list, the delimiter and the
\* recorded default protocol, folder and username are the same before and after
\* every data line, accepted or rejected
C26_SchemaBuiltOnce ==
    [][/\ Schema' # Schema => pc = "AwaitingHeader" /\ vFileLines = <<>> /\ Len(vFileLines') = 1
       /\ (bFoundHeader' /\ ~bFoundHeader) => strFieldDesignations' = vFileLines'[1]
       /\ bFoundHeader => bFoundHeader' /\ Schema' = Schema]_vars

C26_Witness ==
    /\ strFieldDesignations = "hostname,username=bob,folder=Site34,domain,protocol"
    /\ g_vFieldsArray = <<"hostname", "username", "folder", "domain", "protocol">>
    /\ g_strDefaultFolder = "Site34"
    /\ g_strDefaultUsername = "bob"
    /\ Len(vLineResults) = 2
    /\ vLineResults[1].outcome = "Rejected"
    /\ vLineResults[2].outcome = "Created"

\* the protocols that are not supported for import
UnsupportedProtocols == {"SERIAL", "TAPI"}

\* C27: no session is created with the protocol serial or tapi, in any letter case:
\* neither a line that is reported as created nor a session of the store has it,
\* also when the protocol comes from the default of the header
C27_NoUnsupportedProtocol ==
    /\ \A i \in 1..Len(vLineResults) :
          vLineResults[i].outcome = "Created"
          => InUpper(vLineResults[i].L.strProtocol) \notin UnsupportedProtocols
    /\ \A p \in DOMAIN store : InUpper(store[p].strProtocol) \notin UnsupportedProtocols

\* the number of entries of the rejected-lines collection with the text strLine
BogusCount(strLine) ==
    Cardinality({j \in 1..Len(g_strBogusLinesNotImported) :
                    g_strBogusLinesNotImported[j] = strLine})

\* the number of processed data lines with the text strLine
LineCount(strLine) ==
    Cardinality({i \in 1..Len(vLineResults) : vLineResults[i].strLine = strLine})

\* C28: a rejected data line is in the rejected-lines collection at most once,
\* however many of its checks failed: the collection holds a line text at most as
\* often as the file holds it
C28_RejectedListedOnce ==
    \A i \in 1..Len(vLineResults) :
       \A strLine \in {vLineResults[i].strLine} :
          BogusCount(strLine) <= LineCount(strLine)

\* the paths of the sessions the run saved into the session store
SavedPaths == DOMAIN store \ DOMAIN ExistingSessions

\* C29: in every terminal state, aborted ones included, the sessions the run saved
\* into the session store are the sessions of the created list, and the counter of
\* created sessions is their number
C29_StoreMatchesCreated ==
    Terminal
    => /\ SavedPaths = {g_strSessionsCreated[j] : j \in 1..Len(g_strSessionsCreated)}
       /\ g_nSessionsCreated = Len(g_strSessionsCreated)
       /\ g_nSessionsCreated = Cardinality(SavedPaths)

====
